---- MODULE Spec2Model ----
(***************************************************************************)
(* Model of pkg/controller/template/render.go: platform resolution, the    *)
(* template function library, cluster-name inference and the layered       *)
(* template merge performed by generateTemplateMachineConfigs.             *)
(*                                                                         *)
(* Go strings are modelled as sequences of byte codes, so that ToLower,    *)
(* Split, Join, Contains, HasSuffix and sort.Strings are computed and not  *)
(* assumed.  A Go pointer is a sequence of length 0 (nil) or 1.            *)
(***************************************************************************)
EXTENDS Integers, Sequences, FiniteSets, TLC

VARIABLES
    infrastructureName, \* argument of the cluster-name inference
    apiHostname,        \* argument of the cluster-name inference
    inferred,           \* its outcome: [kind |-> "none" | "ok" | "err", val]
    config,             \* the caller's RenderConfig (with the ControllerConfigSpec it points to)
    config0,            \* the caller's RenderConfig as it was constructed
    call,               \* the last library call: [fn, before, kind, val]
    fs,                 \* the template tree on disk
    readdirOrder,       \* the order in which the operating system lists directories
    mapOrder,           \* the order in which Go ranges over a map
    pc,                 \* position in generateTemplateMachineConfigs
    infos,              \* entries of templateDir still to visit
    role,               \* the role being generated
    roleInfos,          \* entries of the role's directory still to visit
    commonAdded,        \* GenerateMachineConfigsForRole's flag
    roleCfgs,           \* MachineConfigs of the role so far
    cfgs,               \* MachineConfigs of the finished roles
    ret,                \* what generateTemplateMachineConfigs returned
    last                \* the last generateMachineConfigForName call

nameVars == <<infrastructureName, apiHostname, inferred>>

ctxVars == <<config, config0, call>>

genVars == <<fs, readdirOrder, mapOrder, pc, infos, role, roleInfos, commonAdded,
             roleCfgs, cfgs, ret, last>>

vars == <<infrastructureName, apiHostname, inferred, config, config0, call,
          fs, readdirOrder, mapOrder, pc, infos, role, roleInfos, commonAdded,
          roleCfgs, cfgs, ret, last>>

-----------------------------------------------------------------------------
(* Bytes and strings *)

UpperLetters == <<"A","B","C","D","E","F","G","H","I","J","K","L","M",
                  "N","O","P","Q","R","S","T","U","V","W","X","Y","Z">>

LowerLetters == <<"a","b","c","d","e","f","g","h","i","j","k","l","m",
                  "n","o","p","q","r","s","t","u","v","w","x","y","z">>

Digits == <<"0","1","2","3","4","5","6","7","8","9">>

IndexIn(seq, c) == CHOOSE i \in DOMAIN seq : seq[i] = c

\* The ASCII code of a one-character string.
Code(c) ==
    CASE \E i \in DOMAIN UpperLetters : UpperLetters[i] = c -> 64 + IndexIn(UpperLetters, c)
      [] \E i \in DOMAIN LowerLetters : LowerLetters[i] = c -> 96 + IndexIn(LowerLetters, c)
      [] \E i \in DOMAIN Digits : Digits[i] = c -> 47 + IndexIn(Digits, c)
      [] c = "-" -> 45
      [] c = "." -> 46
      [] c = "/" -> 47
      [] c = ":" -> 58
      [] c = "_" -> 95
      [] c = "{" -> 123
      [] c = "}" -> 125
      [] c = " " -> 32
      [] c = "=" -> 61

\* The Go string spelled by a tuple of one-character strings.
S(t) == [i \in DOMAIN t |-> Code(t[i])]

Dash == Code("-")

Dot == Code(".")

EmptyString == <<>>

\* s[from..to] (1-based, inclusive); empty when to < from.
Slice(s, from, to) == [i \in 1..(to - from + 1) |-> s[from + i - 1]]

\* strings.HasSuffix(s, ".")
HasSuffixDot(s) == Len(s) > 0 /\ s[Len(s)] = Dot

\* strings.Contains(s, sub)
Contains(s, sub) ==
    \E k \in 0..(Len(s) - Len(sub)) : Slice(s, k + 1, k + Len(sub)) = sub

\* Position of the first byte b in s, 0 when there is none.
IndexByte(s, b) ==
    IF \E i \in DOMAIN s : s[i] = b
    THEN CHOOSE i \in DOMAIN s : s[i] = b /\ \A j \in 1..(i - 1) : s[j] # b
    ELSE 0

RECURSIVE Split(_, _)
\* strings.Split(s, sep) for a one-byte separator: always at least one part.
Split(s, sep) ==
    LET i == IndexByte(s, sep)
    IN  IF i = 0 THEN <<s>>
        ELSE <<Slice(s, 1, i - 1)>> \o Split(Slice(s, i + 1, Len(s)), sep)

\* strings.SplitN(s, sep, 2): cut at the first separator only.
SplitN2(s, sep) ==
    LET i == IndexByte(s, sep)
    IN  IF i = 0 THEN <<s>>
        ELSE <<Slice(s, 1, i - 1), Slice(s, i + 1, Len(s))>>

RECURSIVE Join(_, _)
\* strings.Join(parts, sep) for a one-byte separator.
Join(parts, sep) ==
    IF Len(parts) = 0 THEN EmptyString
    ELSE IF Len(parts) = 1 THEN parts[1]
    ELSE parts[1] \o <<sep>> \o Join(Tail(parts), sep)

\* strings.ToLower on ASCII.
ToLower(s) == [i \in DOMAIN s |-> IF s[i] >= 65 /\ s[i] <= 90 THEN s[i] + 32 ELSE s[i]]

\* Byte-wise lexicographic order, the order of Go's < on strings.
StrLess(s, t) ==
    \E k \in 0..Len(s) :
        /\ k <= Len(t)
        /\ \A i \in 1..k : s[i] = t[i]
        /\ \/ (k = Len(s) /\ k < Len(t))
           \/ (k < Len(s) /\ k < Len(t) /\ s[k + 1] < t[k + 1])

-----------------------------------------------------------------------------
(* Cluster-name inference *)

NoOutcome == [kind |-> "none", val |-> EmptyString]

RECURSIVE clusterNameCombinations(_)
\* For every suffix variant, the dot-joined name and then the dash-joined one.
clusterNameCombinations(nameRaw) ==
    LET parts == SplitN2(nameRaw, Dash)
    IN  IF Len(parts) = 2
        THEN LET suffixes == clusterNameCombinations(parts[2])
                 Pair(k) == <<parts[1] \o <<Dot>> \o suffixes[k],
                              parts[1] \o <<Dash>> \o suffixes[k]>>
                 Build[k \in 0..Len(suffixes)] ==
                     IF k = 0 THEN <<>> ELSE Build[k - 1] \o Pair(k)
             IN  Build[Len(suffixes)]
        ELSE parts

\* A search that keeps the last acceptable name instead of returning the first.
LastMatch(names, host) ==
    LET Ok(k) == ~HasSuffixDot(names[k]) /\ Contains(host, names[k])
    IN  IF \E k \in DOMAIN names : Ok(k)
        THEN <<names[CHOOSE k \in DOMAIN names :
                       Ok(k) /\ \A j \in (k + 1)..Len(names) : ~Ok(j)]>>
        ELSE <<>>

\* The range loop over possibleClusternames with its early return.
FirstMatch(names, host) ==
    LET Ok(k) == ~HasSuffixDot(names[k]) /\ Contains(host, names[k])
    IN  IF \E k \in DOMAIN names : Ok(k)
        THEN <<names[CHOOSE k \in DOMAIN names :
                       Ok(k) /\ \A j \in 1..(k - 1) : ~Ok(j)]>>
        ELSE <<>>

\* The index the outer loop starts from.
FirstCut(parts) == Len(parts) - 1

\* The index the outer loop tries after i.
NextCut(i) == i - 1

RECURSIVE InferFrom(_, _, _)
\* The outer loop of clusterNameFromInfrastructureNameAndApiHostname at index i.
InferFrom(parts, i, host) ==
    IF i < 1 \/ i > Len(parts) - 1
    THEN [kind |-> "err", val |-> EmptyString]
    ELSE LET infraNameShortend == Join(SubSeq(parts, 1, i), Dash)
             m == FirstMatch(clusterNameCombinations(infraNameShortend), host)
         IN  IF Len(m) = 1
             THEN [kind |-> "ok", val |-> m[1]]
             ELSE InferFrom(parts, NextCut(i), host)

clusterNameFromInfrastructureNameAndApiHostname(infra, host) ==
    LET parts == Split(infra, Dash)
    IN  InferFrom(parts, FirstCut(parts), host)


-----------------------------------------------------------------------------
(* RenderConfig and the ControllerConfigSpec it embeds by pointer *)

Nil == <<>>

Ptr(x) == <<x>>

\* configv1 platform types, as the strings of the API package.
AWSPlatformType == S(<<"A","W","S">>)

AlibabaCloudPlatformType == S(<<"A","l","i","b","a","b","a","C","l","o","u","d">>)

AzurePlatformType == S(<<"A","z","u","r","e">>)

BareMetalPlatformType == S(<<"B","a","r","e","M","e","t","a","l">>)

GCPPlatformType == S(<<"G","C","P">>)

OpenStackPlatformType == S(<<"O","p","e","n","S","t","a","c","k">>)

LibvirtPlatformType == S(<<"L","i","b","v","i","r","t">>)

OvirtPlatformType == S(<<"o","V","i","r","t">>)

VSpherePlatformType == S(<<"V","S","p","h","e","r","e">>)

KubevirtPlatformType == S(<<"K","u","b","e","V","i","r","t">>)

PowerVSPlatformType == S(<<"P","o","w","e","r","V","S">>)

NonePlatformType == S(<<"N","o","n","e">>)

platformBase == S(<<"_","b","a","s","e">>)

platformOnPrem == S(<<"o","n","-","p","r","e","m">>)

filesDir == S(<<"f","i","l","e","s">>)

unitsDir == S(<<"u","n","i","t","s">>)

\* The case list of the resolver's switch.
KnownPlatforms ==
    {AWSPlatformType, AlibabaCloudPlatformType, AzurePlatformType, BareMetalPlatformType,
     GCPPlatformType, OpenStackPlatformType, LibvirtPlatformType, OvirtPlatformType,
     VSpherePlatformType, KubevirtPlatformType, PowerVSPlatformType, NonePlatformType}

\* &configv1.PlatformStatus{Type: ""}
EmptyPlatformStatus ==
    [Type |-> EmptyString, BareMetal |-> Nil, Ovirt |-> Nil, OpenStack |-> Nil,
     VSphere |-> Nil, Kubevirt |-> Nil]

\* &configv1.Infrastructure{Status: configv1.InfrastructureStatus{}}
EmptyInfrastructure ==
    [PlatformStatus |-> Nil, APIServerURL |-> EmptyString, InfrastructureName |-> EmptyString]

\* ic.Infra = &configv1.Infrastructure{...} when it is nil: a write through the
\* pointer to the ControllerConfigSpec.
DefaultInfra(ic) ==
    IF ic.Infra = Nil THEN [ic EXCEPT !.Infra = Ptr(EmptyInfrastructure)] ELSE ic

\* ic.Infra.Status.PlatformStatus = &configv1.PlatformStatus{Type: ""} when it is nil.
DefaultPlatformStatus(ic) ==
    IF ic.Infra[1].PlatformStatus = Nil
    THEN [ic EXCEPT !.Infra = Ptr([ic.Infra[1] EXCEPT !.PlatformStatus = Ptr(EmptyPlatformStatus)])]
    ELSE ic

\* An outcome of a library function: a returned value, a returned failure or a
\* nil-pointer panic, with the ControllerConfigSpec as the call leaves it.
Value(v, ic) == [kind |-> "value", val |-> v, err |-> "", spec |-> ic]

NoValue(ic) == [kind |-> "novalue", val |-> EmptyString, err |-> "", spec |-> ic]

Failure(msg, ic) == [kind |-> "error", val |-> EmptyString, err |-> msg, spec |-> ic]

Panic(ic) == [kind |-> "panic", val |-> EmptyString, err |-> "nil pointer dereference", spec |-> ic]

\* A resolver that lower-cases nothing.
platformStringVerbatim(ic) ==
    LET d == DefaultPlatformStatus(DefaultInfra(ic))
        type == d.Infra[1].PlatformStatus[1].Type
    IN  IF type = EmptyString
        THEN Failure("cannot generate MachineConfigs when no platformStatus.type is set", d)
        ELSE IF type = platformBase THEN Failure("platform _base unsupported", d)
        ELSE IF type \in KnownPlatforms THEN Value(type, d)
        ELSE Value(NonePlatformType, d)

\* A resolver without the case for the base sentinel.
platformStringNoSentinel(ic) ==
    LET d == DefaultPlatformStatus(DefaultInfra(ic))
        type == d.Infra[1].PlatformStatus[1].Type
    IN  IF type = EmptyString
        THEN Failure("cannot generate MachineConfigs when no platformStatus.type is set", d)
        ELSE IF type \in KnownPlatforms THEN Value(ToLower(type), d)
        ELSE Value(ToLower(NonePlatformType), d)

platformStringFromControllerConfigSpec(ic) ==
    LET d == DefaultPlatformStatus(DefaultInfra(ic))
        type == d.Infra[1].PlatformStatus[1].Type
    IN  IF type = EmptyString
        THEN Failure("cannot generate MachineConfigs when no platformStatus.type is set", d)
        ELSE IF type = platformBase THEN Failure("platform _base unsupported", d)
        ELSE IF type \in KnownPlatforms THEN Value(ToLower(type), d)
        ELSE Value(ToLower(NonePlatformType), d)

onPremPlatform(platformString) ==
    platformString \in {BareMetalPlatformType, OvirtPlatformType, OpenStackPlatformType,
                        VSpherePlatformType, KubevirtPlatformType}

-----------------------------------------------------------------------------
(* The template function library.  A function receives the RenderConfig by  *)
(* value; cfg.Infra is a field of the ControllerConfigSpec the copy still    *)
(* points to.                                                                *)

\* cloudprovider.IsCloudProviderExternal(platformStatus, featureGate): the
\* answer of the external predicate, carried by the feature-gate descriptor.
IsCloudProviderExternal(ps, featureGate) ==
    CASE featureGate = "External" -> [external |-> TRUE, err |-> FALSE]
      [] featureGate = "InTree" -> [external |-> FALSE, err |-> FALSE]
      [] OTHER -> [external |-> FALSE, err |-> TRUE]

cloudProvider(cfg) ==
    LET ic == cfg.ControllerConfigSpec
    IN  IF ic.Infra = Nil THEN Panic(ic)
        ELSE IF ic.Infra[1].PlatformStatus # Nil
        THEN LET ps == ic.Infra[1].PlatformStatus[1]
                 ext == IsCloudProviderExternal(ps, cfg.FeatureGate)
             IN  IF ~ext.err /\ ext.external THEN Value(S(<<"e","x","t","e","r","n","a","l">>), ic)
                 ELSE IF ps.Type \in {AWSPlatformType, AzurePlatformType,
                                      OpenStackPlatformType, VSpherePlatformType}
                 THEN Value(ToLower(ps.Type), ic)
                 ELSE IF ps.Type = GCPPlatformType THEN Value(S(<<"g","c","e">>), ic)
                 ELSE Value(EmptyString, ic)
        ELSE Value(EmptyString, ic)

\* flag := "--cloud-config=/etc/kubernetes/cloud.conf"
CloudConfigFlagLiteral ==
    S(<<"-","-","c","l","o","u","d","-","c","o","n","f","i","g","=","/","e","t","c","/",
        "k","u","b","e","r","n","e","t","e","s","/","c","l","o","u","d",".","c","o","n","f">>)

cloudConfigFlag(cfg) ==
    LET ic == cfg.ControllerConfigSpec
    IN  IF ic.CloudProviderConfig = EmptyString THEN Value(EmptyString, ic)
        ELSE LET d == DefaultPlatformStatus(DefaultInfra(ic))
                 ps == d.Infra[1].PlatformStatus[1]
                 ext == IsCloudProviderExternal(ps, cfg.FeatureGate)
             IN  IF ~ext.err /\ ext.external THEN Value(EmptyString, d)
                 ELSE IF ps.Type \in {AWSPlatformType, AzurePlatformType, GCPPlatformType,
                                      OpenStackPlatformType, VSpherePlatformType}
                 THEN Value(CloudConfigFlagLiteral, d)
                 ELSE Value(EmptyString, d)

onPremPlatformShortName(cfg) ==
    LET ic == cfg.ControllerConfigSpec
    IN  IF ic.Infra = Nil THEN Panic(ic)
        ELSE IF ic.Infra[1].PlatformStatus # Nil
        THEN LET type == ic.Infra[1].PlatformStatus[1].Type
             IN  CASE type = BareMetalPlatformType -> Value(S(<<"k","n","i">>), ic)
                   [] type = OvirtPlatformType -> Value(S(<<"o","v","i","r","t">>), ic)
                   [] type = OpenStackPlatformType -> Value(S(<<"o","p","e","n","s","t","a","c","k">>), ic)
                   [] type = VSpherePlatformType -> Value(S(<<"v","s","p","h","e","r","e">>), ic)
                   [] type = KubevirtPlatformType -> Value(S(<<"k","u","b","e","v","i","r","t">>), ic)
                   [] OTHER -> Value(EmptyString, ic)
        ELSE Value(EmptyString, ic)

onPremPlatformKeepalivedEnableUnicast(cfg) ==
    LET ic == cfg.ControllerConfigSpec
    IN  IF ic.Infra = Nil THEN Panic(ic)
        ELSE IF ic.Infra[1].PlatformStatus # Nil
        THEN IF ic.Infra[1].PlatformStatus[1].Type \in {BareMetalPlatformType, KubevirtPlatformType}
             THEN Value(S(<<"y","e","s">>), ic)
             ELSE Value(S(<<"n","o">>), ic)
        ELSE Value(S(<<"n","o">>), ic)

\* The read of field f of a platform sub-descriptor held by pointer p.
FieldOf(p, f, ic) == IF p = Nil THEN Panic(ic) ELSE Value(p[1][f], ic)

\* The body shared by the two per-platform lookups, f the field read.
OnPremLookup(cfg, f, invalid) ==
    LET ic == cfg.ControllerConfigSpec
    IN  IF ic.Infra = Nil THEN Panic(ic)
        ELSE IF ic.Infra[1].PlatformStatus # Nil
        THEN LET ps == ic.Infra[1].PlatformStatus[1]
             IN  CASE ps.Type = BareMetalPlatformType -> FieldOf(ps.BareMetal, f, ic)
                   [] ps.Type = OvirtPlatformType -> FieldOf(ps.Ovirt, f, ic)
                   [] ps.Type = OpenStackPlatformType -> FieldOf(ps.OpenStack, f, ic)
                   [] ps.Type = KubevirtPlatformType -> FieldOf(ps.Kubevirt, f, ic)
                   [] ps.Type = VSpherePlatformType ->
                        IF ps.VSphere # Nil THEN Value(ps.VSphere[1][f], ic) ELSE NoValue(ic)
                   [] OTHER -> Failure(invalid, ic)
        ELSE Failure("", ic)

onPremPlatformIngressIP(cfg) ==
    OnPremLookup(cfg, "IngressIP", "invalid platform for Ingress IP")

onPremPlatformAPIServerInternalIP(cfg) ==
    OnPremLookup(cfg, "APIServerInternalIP", "invalid platform for API Server Internal IP")

Colon == Code(":")

Slash == Code("/")

\* url.Parse for the URL shapes [scheme "://"] host [":" port] ["/" path]: a
\* URL that starts with a colon has no protocol scheme and does not parse.
urlParses(u) == ~(Len(u) > 0 /\ u[1] = Colon)

\* (*url.URL).Hostname() of a parsed URL: the authority after "//", up to the
\* port or the path; empty when the URL names no authority.
urlHostname(u) ==
    LET starts == {i \in 1..(Len(u) - 2) : u[i] = Colon /\ u[i + 1] = Slash /\ u[i + 2] = Slash}
    IN  IF starts = {} THEN EmptyString
        ELSE LET i == CHOOSE k \in starts : \A j \in starts : k <= j
                 rest == Slice(u, i + 3, Len(u))
                 ends == {k \in DOMAIN rest : rest[k] = Colon \/ rest[k] = Slash}
             IN  IF ends = {} THEN rest
                 ELSE Slice(rest, 1, (CHOOSE k \in ends : \A j \in ends : k <= j) - 1)

clusterName(cfg) ==
    LET ic == cfg.ControllerConfigSpec
    IN  IF ic.Infra = Nil THEN Panic(ic)
        ELSE IF ~urlParses(ic.Infra[1].APIServerURL) THEN Failure("missing protocol scheme", ic)
        ELSE LET r == clusterNameFromInfrastructureNameAndApiHostname(
                          ic.Infra[1].InfrastructureName, urlHostname(ic.Infra[1].APIServerURL))
             IN  IF r.kind = "ok" THEN Value(r.val, ic) ELSE Failure("could find a matching", ic)

-----------------------------------------------------------------------------
(* The template tree on disk.  A path is a sequence of names below the      *)
(* template directory; fs maps each existing path to its node.              *)

DirNode == [kind |-> "dir", data |-> EmptyString, readable |-> TRUE]

FileNode(data) == [kind |-> "file", data |-> data, readable |-> TRUE]

templateDir == <<>>

Base(path) == path[Len(path)]

IsUnder(path, dir) == Len(path) > Len(dir) /\ SubSeq(path, 1, Len(dir)) = dir

\* The names of the entries of directory dir.
EntryNames(tree, dir) ==
    {p[Len(p)] : p \in {q \in DOMAIN tree : Len(q) = Len(dir) + 1 /\ IsUnder(q, dir)}}

RECURSIVE SortSet(_)
\* The strings of a set in increasing order.
SortSet(names) ==
    IF names = {} THEN <<>>
    ELSE LET least == CHOOSE x \in names : \A y \in names : x = y \/ StrLess(x, y)
         IN  <<least>> \o SortSet(names \ {least})

Range(seq) == {seq[i] : i \in DOMAIN seq}

\* sort.Strings on a list without repetitions.
SortStrings(seq) == SortSet(Range(seq))

RECURSIVE ArrangeFrom(_, _, _)
ArrangeFrom(sorted, left, order) ==
    IF left = {} THEN <<>>
    ELSE LET Rank(i) == IF i <= Len(order) THEN order[i] ELSE Len(order) + i
             first == CHOOSE i \in left : \A j \in left : Rank(i) <= Rank(j)
         IN  <<sorted[first]>> \o ArrangeFrom(sorted, left \ {first}, order)

\* The members of a set in an order nothing guarantees: the order in which the
\* operating system lists a directory, or Go ranges over a map.
Arrange(names, order) ==
    LET sorted == SortSet(names) IN ArrangeFrom(sorted, DOMAIN sorted, order)

\* (*os.File).Readdirnames(-1): the entries in directory order.
Readdirnames(tree, dir, order) == Arrange(EntryNames(tree, dir), order)

\* A directory read that keeps the directory order.
readDirNamesUnsorted(tree, dir, order) == Readdirnames(tree, dir, order)

\* The sorted directory read of ioutil.ReadDir and of filepath.Walk.
readDirNames(tree, dir, order) == SortStrings(Readdirnames(tree, dir, order))

IsDir(tree, path) == path \in DOMAIN tree /\ tree[path].kind = "dir"

\* ioutil.ReadDir(dir): the entry names sorted, or a failure.
ReadDir(tree, dir, order) ==
    IF IsDir(tree, dir)
    THEN [names |-> readDirNames(tree, dir, order), err |-> ""]
    ELSE [names |-> <<>>, err |-> "failed to read dir"]

existsDir(tree, path) ==
    IF path \notin DOMAIN tree THEN [exists |-> FALSE, err |-> ""]
    ELSE IF tree[path].kind # "dir"
    THEN [exists |-> FALSE, err |-> "expected template directory, not a directory"]
    ELSE [exists |-> TRUE, err |-> ""]

RECURSIVE Walk(_, _, _)
\* filepath.Walk(root, walkFn): the non-directory paths under root in the
\* order walkFn is called on them (walkFn returns nil on directories).
Walk(tree, root, order) ==
    IF tree[root].kind = "dir"
    THEN LET names == readDirNames(tree, root, order)
             Sub[k \in 0..Len(names)] ==
                 IF k = 0 THEN <<>>
                 ELSE Sub[k - 1] \o Walk(tree, root \o <<names[k]>>, order)
         IN  Sub[Len(names)]
    ELSE <<root>>

-----------------------------------------------------------------------------
(* Rendering and merging *)

TplCloudConfigFlag ==
    S(<<"{","{","c","l","o","u","d","C","o","n","f","i","g","F","l","a","g"," ",".","}","}">>)

TplShortName ==
    S(<<"{","{","o","n","P","r","e","m","P","l","a","t","f","o","r","m",
        "S","h","o","r","t","N","a","m","e"," ",".","}","}">>)

OpenBrace == Code("{")

\* Whether the template source opens an action.
HasAction(b) == \E i \in 1..(Len(b) - 1) : b[i] = OpenBrace /\ b[i + 1] = OpenBrace

\* renderTemplate for the templates of the model: literal text renders as
\* itself, a call of a registered function renders its value (a failure or a
\* recovered panic of the function fails the execution), any other action
\* fails to parse.
renderTemplate(cfg, path, b) ==
    LET Exec(r) == IF r.kind = "value"
                   THEN [out |-> r.val, err |-> ""]
                   ELSE [out |-> EmptyString, err |-> "failed to execute template"]
    IN  IF b = TplCloudConfigFlag THEN Exec(cloudConfigFlag(cfg))
        ELSE IF b = TplShortName THEN Exec(onPremPlatformShortName(cfg))
        ELSE IF HasAction(b) THEN [out |-> EmptyString, err |-> "failed to parse template"]
        ELSE [out |-> b, err |-> ""]

\* A map[string]string is a set of <<key, value>> pairs with distinct keys.
Keys(m) == {e[1] : e \in m}

Get(m, k) == (CHOOSE e \in m : e[1] = k)[2]

Delete(m, k) == {e \in m : e[1] # k}

Put(m, k, v) == Delete(m, k) \cup {<<k, v>>}

\* The end of walkFn with a deletion for a template that renders to nothing.
storeRenderedDeleteEmpty(toFilter, name, r) ==
    IF r.err # "" THEN [m |-> toFilter, err |-> r.err]
    ELSE IF Len(r.out) > 0 THEN [m |-> Put(toFilter, name, r.out), err |-> ""]
    ELSE [m |-> Delete(toFilter, name), err |-> ""]

\* The end of walkFn keeping the first entry of a name.
storeRenderedFirstWins(toFilter, name, r) ==
    IF r.err # "" THEN [m |-> toFilter, err |-> r.err]
    ELSE IF Len(r.out) > 0 /\ name \notin Keys(toFilter)
    THEN [m |-> Put(toFilter, name, r.out), err |-> ""]
    ELSE [m |-> toFilter, err |-> ""]

\* The end of walkFn, r the result of renderTemplate: a rendering that is not
\* empty is stored under the file's base name, an empty one changes nothing.
storeRendered(toFilter, name, r) ==
    IF r.err # "" THEN [m |-> toFilter, err |-> r.err]
    ELSE IF Len(r.out) > 0 THEN [m |-> Put(toFilter, name, r.out), err |-> ""]
    ELSE [m |-> toFilter, err |-> ""]

\* A walkFn that ignores zero-length files.
walkFnNoSuppress(toFilter, tree, path, cfg) ==
    IF Len(tree[path].data) = 0
    THEN [m |-> toFilter, err |-> ""]
    ELSE IF ~tree[path].readable THEN [m |-> toFilter, err |-> "failed to read file"]
    ELSE storeRendered(toFilter, Base(path), renderTemplate(cfg, path, tree[path].data))

\* walkFn of filterTemplates on one file.
walkFn(toFilter, tree, path, cfg) ==
    IF Len(tree[path].data) = 0
    THEN [m |-> Delete(toFilter, Base(path)), err |-> ""]
    ELSE IF ~tree[path].readable THEN [m |-> toFilter, err |-> "failed to read file"]
    ELSE storeRendered(toFilter, Base(path), renderTemplate(cfg, path, tree[path].data))

RECURSIVE FilterFrom(_, _, _, _, _)
\* The walk goes on after the k-th file unless walkFn failed on it.
FilterNext(r, tree, paths, k, cfg) ==
    IF r.err # "" THEN r ELSE FilterFrom(r.m, tree, paths, k + 1, cfg)

\* The walk from its k-th file on; it stops at the first failure.
FilterFrom(toFilter, tree, paths, k, cfg) ==
    IF k > Len(paths) THEN [m |-> toFilter, err |-> ""]
    ELSE FilterNext(walkFn(toFilter, tree, paths[k], cfg), tree, paths, k, cfg)

filterTemplates(toFilter, tree, path, cfg, order) ==
    FilterFrom(toFilter, tree, Walk(tree, path, order), 1, cfg)

\* The keys of a map as a list, in the given order.
ValuesAt(m, ks) == [i \in DOMAIN ks |-> Get(m, ks[i])]

\* A value list in the order the map happens to be ranged over.
keySortValsUnsorted(m, order) == ValuesAt(m, Arrange(Keys(m), order))

\* keySortVals: the values of the map, sorted by key.
keySortVals(m, order) == ValuesAt(m, SortStrings(Arrange(Keys(m), order)))

-----------------------------------------------------------------------------
(* Assembly of one (role, name) *)

RECURSIVE AppendExisting(_, _, _, _, _)
\* What one loop does with the answer e of existsDir on its k-th candidate.
AppendIf(e, tree, base, candidates, k, acc) ==
    IF e.err # "" THEN [dirs |-> acc, err |-> e.err]
    ELSE IF ~e.exists THEN AppendExisting(tree, base, candidates, k + 1, acc)
    ELSE AppendExisting(tree, base, candidates, k + 1, Append(acc, base \o <<candidates[k]>>))

\* One loop over the directory candidates of a layer: a candidate that does
\* not exist is skipped, one that is not a directory fails the assembly.
AppendExisting(tree, base, candidates, k, acc) ==
    IF k > Len(candidates) THEN [dirs |-> acc, err |-> ""]
    ELSE AppendIf(existsDir(tree, base \o <<candidates[k]>>), tree, base, candidates, k, acc)

\* The directory names a layer is made of: on-prem only for on-prem platforms.
LayerCandidates(platformString, type) ==
    IF onPremPlatform(type)
    THEN <<platformBase, platformOnPrem, platformString>>
    ELSE <<platformBase, platformString>>

commonName == S(<<"c","o","m","m","o","n">>)

\* The common loop's result r with the flag it leaves in *commonAdded.
CommonResult(r, added) ==
    [dirs |-> r.dirs, err |-> r.err, added |-> IF r.err = "" THEN TRUE ELSE added]

\* A common layer that is added for every name.
commonLayerAlways(tree, platformString, type, added) ==
    CommonResult(AppendExisting(tree, templateDir \o <<commonName>>,
                                LayerCandidates(platformString, type), 1, <<>>), added)

\* The common layer: only when *commonAdded is still false, and then it is set.
commonLayer(tree, platformString, type, added) ==
    IF added THEN [dirs |-> <<>>, err |-> "", added |-> added]
    ELSE CommonResult(AppendExisting(tree, templateDir \o <<commonName>>,
                                     LayerCandidates(platformString, type), 1, <<>>), added)

\* existsDir answered e for directory p: filterTemplates runs when it exists.
FilterIf(e, toFilter, tree, p, cfg, order) ==
    IF e.err # "" THEN [m |-> toFilter, err |-> e.err]
    ELSE IF e.exists THEN filterTemplates(toFilter, tree, p, cfg, order)
    ELSE [m |-> toFilter, err |-> ""]

\* One half of the loop body: the files or the units directory p of a layer.
FilterDir(toFilter, tree, p, cfg, order) ==
    FilterIf(existsDir(tree, p), toFilter, tree, p, cfg, order)

RECURSIVE MergeFrom(_, _, _, _, _, _, _)
\* The loop body after the units directory gave u.
MergeUnits(u, files, tree, dirs, k, cfg, order) ==
    IF u.err # "" THEN [files |-> files, units |-> u.m, err |-> u.err]
    ELSE MergeFrom(tree, dirs, k + 1, files, u.m, cfg, order)

\* The loop body after the files directory gave f.
MergeFiles(f, units, tree, dirs, k, cfg, order) ==
    IF f.err # "" THEN [files |-> f.m, units |-> units, err |-> f.err]
    ELSE MergeUnits(FilterDir(units, tree, dirs[k] \o <<unitsDir>>, cfg, order),
                    f.m, tree, dirs, k, cfg, order)

\* The walk over platformDirs from the k-th on, files before units.
MergeFrom(tree, dirs, k, files, units, cfg, order) ==
    IF k > Len(dirs) THEN [files |-> files, units |-> units, err |-> ""]
    ELSE MergeFiles(FilterDir(files, tree, dirs[k] \o <<filesDir>>, cfg, order),
                    units, tree, dirs, k, cfg, order)

\* What generateMachineConfigForName leaves behind: its locals and its result.
Assembled(spec, added, dirs, files, units, sf, su, mcfg, err) ==
    [spec |-> spec, commonAdded |-> added, platformDirs |-> dirs,
     files |-> files, units |-> units, sortedFiles |-> sf, sortedUnits |-> su,
     mcfg |-> mcfg, err |-> err]

\* ctrlcommon.MachineConfigFromIgnConfig on the transpiled lists, with the
\* OS image URL injected.
MachineConfig(roleName, name, sf, su) ==
    [role |-> roleName, name |-> name, files |-> sf, units |-> su, tagged |-> FALSE]

\* The end of the assembly, on the sorted lists; transpiles says whether
\* ctrlcommon.TranspileCoreOSConfigToIgn accepts them.
Transpiled(sf, su, g, dirs, spec, added, roleName, name, transpiles) ==
    IF ~transpiles
    THEN Assembled(spec, added, dirs, g.files, g.units, sf, su, Nil,
                   "error transpiling CoreOS config to Ignition config")
    ELSE Assembled(spec, added, dirs, g.files, g.units, sf, su,
                   Ptr(MachineConfig(roleName, name, sf, su)), "")

\* The assembly after the layers were merged into g.
AfterMerge(g, dirs, spec, added, roleName, name, mOrder, transpiles) ==
    IF g.err # ""
    THEN Assembled(spec, added, dirs, g.files, g.units, <<>>, <<>>, Nil, g.err)
    ELSE Transpiled(keySortVals(g.files, mOrder), keySortVals(g.units, mOrder),
                    g, dirs, spec, added, roleName, name, transpiles)

\* The assembly after the role's own loop gave l.
AfterLocal(l, tree, cfg, added, roleName, name, rdOrder, mOrder, transpiles) ==
    IF l.err # ""
    THEN Assembled(cfg.ControllerConfigSpec, added, l.dirs, {}, {}, <<>>, <<>>, Nil, l.err)
    ELSE AfterMerge(MergeFrom(tree, l.dirs, 1, {}, {}, cfg, rdOrder),
                    l.dirs, cfg.ControllerConfigSpec, added, roleName, name, mOrder, transpiles)

\* The assembly after the common loop gave c.
AfterCommon(c, tree, cfg, platformString, type, roleName, name, path, rdOrder, mOrder, transpiles) ==
    IF c.err # ""
    THEN Assembled(cfg.ControllerConfigSpec, c.added, c.dirs, {}, {}, <<>>, <<>>, Nil, c.err)
    ELSE AfterLocal(AppendExisting(tree, path, LayerCandidates(platformString, type), 1, c.dirs),
                    tree, cfg, c.added, roleName, name, rdOrder, mOrder, transpiles)

\* The assembly after the platform string was resolved to p.
AfterPlatform(p, tree, cfg, roleName, name, path, added, rdOrder, mOrder, transpiles) ==
    IF p.kind # "value"
    THEN Assembled(p.spec, added, <<>>, {}, {}, <<>>, <<>>, Nil, p.err)
    ELSE AfterCommon(commonLayer(tree, p.val, p.spec.Infra[1].PlatformStatus[1].Type, added),
                     tree, [cfg EXCEPT !.ControllerConfigSpec = p.spec], p.val,
                     p.spec.Infra[1].PlatformStatus[1].Type,
                     roleName, name, path, rdOrder, mOrder, transpiles)

generateMachineConfigForName(tree, cfg, roleName, name, path, added, rdOrder, mOrder, transpiles) ==
    AfterPlatform(platformStringFromControllerConfigSpec(cfg.ControllerConfigSpec),
                  tree, cfg, roleName, name, path, added, rdOrder, mOrder, transpiles)

-----------------------------------------------------------------------------
(* generateTemplateMachineConfigs and GenerateMachineConfigsForRole *)

workerName == S(<<"w","o","r","k","e","r">>)

masterName == S(<<"m","a","s","t","e","r">>)

\* Custom pools reuse the worker templates.
rolePath(roleName) ==
    IF roleName # workerName /\ roleName # masterName THEN workerName ELSE roleName

\* A failure path that hands back what was generated before the failure.
ReturnPartial(done, err) == [cfgs |-> Ptr(done), err |-> err]

\* return nil, err
ReturnFailure(done, err) == [cfgs |-> Nil, err |-> err]

NotReturned == [cfgs |-> Nil, err |-> "not returned"]

NoAssembly ==
    [role |-> EmptyString, name |-> EmptyString, first |-> FALSE,
     platformDirs |-> <<>>, files |-> {}, units |-> {},
     sortedFiles |-> <<>>, sortedUnits |-> <<>>, mcfg |-> Nil, err |-> "none"]

Start ==
    /\ pc = "start"
    /\ LET r == ReadDir(fs, templateDir, readdirOrder)
       IN  IF r.err # ""
           THEN /\ ret' = ReturnFailure(<<>>, r.err)
                /\ pc' = "done"
                /\ UNCHANGED infos
           ELSE /\ infos' = r.names
                /\ pc' = "roles"
                /\ UNCHANGED ret
    /\ cfgs' = <<>>
    /\ UNCHANGED <<fs, readdirOrder, mapOrder, role, roleInfos, commonAdded, roleCfgs, last>>
    /\ UNCHANGED <<nameVars, ctxVars>>

\* A non-directory entry of templateDir, or "common".
SkipInfo ==
    /\ pc = "roles"
    /\ infos # <<>>
    /\ ~IsDir(fs, templateDir \o <<Head(infos)>>) \/ Head(infos) = commonName
    /\ infos' = Tail(infos)
    /\ UNCHANGED <<fs, readdirOrder, mapOrder, pc, role, roleInfos, commonAdded,
                   roleCfgs, cfgs, ret, last>>
    /\ UNCHANGED <<nameVars, ctxVars>>

\* The call of GenerateMachineConfigsForRole up to its loop.
EnterRole ==
    /\ pc = "roles"
    /\ infos # <<>>
    /\ IsDir(fs, templateDir \o <<Head(infos)>>) /\ Head(infos) # commonName
    /\ role' = Head(infos)
    /\ infos' = Tail(infos)
    /\ LET r == ReadDir(fs, templateDir \o <<rolePath(Head(infos))>>, readdirOrder)
       IN  IF r.err # ""
           THEN /\ ret' = ReturnFailure(cfgs, r.err)
                /\ pc' = "done"
                /\ UNCHANGED <<roleInfos, commonAdded, roleCfgs>>
           ELSE /\ roleInfos' = r.names
                /\ roleCfgs' = <<>>
                /\ commonAdded' = FALSE
                /\ pc' = "names"
                /\ UNCHANGED ret
    /\ UNCHANGED <<fs, readdirOrder, mapOrder, cfgs, last>>
    /\ UNCHANGED <<nameVars, ctxVars>>

\* A non-directory entry of the role's directory.
SkipNameInfo ==
    /\ pc = "names"
    /\ roleInfos # <<>>
    /\ ~IsDir(fs, templateDir \o <<rolePath(role), Head(roleInfos)>>)
    /\ roleInfos' = Tail(roleInfos)
    /\ UNCHANGED <<fs, readdirOrder, mapOrder, pc, infos, role, commonAdded,
                   roleCfgs, cfgs, ret, last>>
    /\ UNCHANGED <<nameVars, ctxVars>>

\* What the two callers do with the result a of generateMachineConfigForName
\* for the directory name.
TakeAssembly(a, name) ==
    /\ config' = [config EXCEPT !.ControllerConfigSpec = a.spec]
    /\ commonAdded' = a.commonAdded
    /\ last' = [role |-> role, name |-> name, first |-> ~commonAdded,
                platformDirs |-> a.platformDirs, files |-> a.files,
                units |-> a.units, sortedFiles |-> a.sortedFiles,
                sortedUnits |-> a.sortedUnits, mcfg |-> a.mcfg, err |-> a.err]
    /\ IF a.err # ""
       THEN /\ ret' = ReturnFailure(cfgs \o roleCfgs, a.err)
            /\ pc' = "done"
            /\ UNCHANGED <<roleInfos, roleCfgs>>
       ELSE /\ roleCfgs' = Append(roleCfgs, a.mcfg[1])
            /\ roleInfos' = Tail(roleInfos)
            /\ UNCHANGED <<ret, pc>>

\* One call of generateMachineConfigForName and what the two callers do with
\* its result.
AssembleName ==
    /\ pc = "names"
    /\ roleInfos # <<>>
    /\ IsDir(fs, templateDir \o <<rolePath(role), Head(roleInfos)>>)
    /\ \E transpiles \in BOOLEAN :
         TakeAssembly(generateMachineConfigForName(fs, config, role, Head(roleInfos),
                          templateDir \o <<rolePath(role), Head(roleInfos)>>, commonAdded,
                          readdirOrder, mapOrder, transpiles),
                      Head(roleInfos))
    /\ UNCHANGED <<fs, readdirOrder, mapOrder, infos, role, cfgs>>
    /\ UNCHANGED <<nameVars, config0, call>>

\* GenerateMachineConfigsForRole returns and its configs are appended.
LeaveRole ==
    /\ pc = "names"
    /\ roleInfos = <<>>
    /\ cfgs' = cfgs \o roleCfgs
    /\ pc' = "roles"
    /\ UNCHANGED <<fs, readdirOrder, mapOrder, infos, role, roleInfos, commonAdded,
                   roleCfgs, ret, last>>
    /\ UNCHANGED <<nameVars, ctxVars>>

\* All roles are done: every config is tagged with the controller version.
Finish ==
    /\ pc = "roles"
    /\ infos = <<>>
    /\ ret' = [cfgs |-> Ptr([i \in DOMAIN cfgs |-> [cfgs[i] EXCEPT !.tagged = TRUE]]),
               err |-> ""]
    /\ pc' = "done"
    /\ UNCHANGED <<fs, readdirOrder, mapOrder, infos, role, roleInfos, commonAdded,
                   roleCfgs, cfgs, last>>
    /\ UNCHANGED <<nameVars, ctxVars>>

Next ==
    \/ Start
    \/ SkipInfo
    \/ EnterRole
    \/ SkipNameInfo
    \/ AssembleName
    \/ LeaveRole
    \/ Finish

-----------------------------------------------------------------------------
(* Inputs and calls of the configuration-context specification *)

RenderConfig(infra, cloudProviderConfig, featureGate) ==
    [ControllerConfigSpec |-> [Infra |-> infra, CloudProviderConfig |-> cloudProviderConfig],
     FeatureGate |-> featureGate,
     Constants |-> Nil]

Endpoints == [IngressIP |-> S(<<"1","0",".","0",".","0",".","1">>),
              APIServerInternalIP |-> S(<<"1","0",".","0",".","0",".","2">>)]

\* A platform status of the given type whose own sub-descriptor is sub.
PlatformStatus(type, sub) ==
    [Type |-> type,
     BareMetal |-> IF type = BareMetalPlatformType THEN sub ELSE Nil,
     Ovirt |-> IF type = OvirtPlatformType THEN sub ELSE Nil,
     OpenStack |-> IF type = OpenStackPlatformType THEN sub ELSE Nil,
     VSphere |-> IF type = VSpherePlatformType THEN sub ELSE Nil,
     Kubevirt |-> IF type = KubevirtPlatformType THEN sub ELSE Nil]

UnknownPlatformType == S(<<"I","B","M","C","l","o","u","d">>)

LowerCasedAWS == S(<<"a","w","s">>)

PlatformTypes ==
    KnownPlatforms \cup {EmptyString, platformBase, UnknownPlatformType, LowerCasedAWS}

PlatformStatuses ==
    {PlatformStatus(t, Nil) : t \in PlatformTypes}
        \cup {PlatformStatus(t, Ptr(Endpoints)) : t \in {u \in PlatformTypes : onPremPlatform(u)}}

URLGood == S(<<"h","t","t","p","s",":","/","/","a","p","i",".","a",".","b",":","6","4","4","3">>)

URLBad == S(<<":","/","/","a","p","i">>)

InfraNameGood == S(<<"a","-","b","-","x","9">>)

InfraNameNoDash == S(<<"a","b">>)

Endpoint == {<<URLGood, InfraNameGood>>, <<URLGood, InfraNameNoDash>>, <<URLBad, InfraNameGood>>}

Infrastructures ==
    {[PlatformStatus |-> ps, APIServerURL |-> e[1], InfrastructureName |-> e[2]] :
        ps \in {Nil} \cup {Ptr(x) : x \in PlatformStatuses}, e \in Endpoint}

CloudProviderConfigs == {EmptyString, S(<<"c","f","g">>)}

FeatureGates == {"External", "InTree", "Invalid"}

CtxConfigs ==
    {RenderConfig(infra, c, g) :
        infra \in {Nil} \cup {Ptr(x) : x \in Infrastructures},
        c \in CloudProviderConfigs, g \in FeatureGates}

IdleConfig == RenderConfig(Nil, EmptyString, "InTree")

NoCall == [fn |-> "none", before |-> IdleConfig, kind |-> "none", val |-> EmptyString, err |-> ""]

\* No generation is running.
IdleGen ==
    /\ fs = <<>>
    /\ readdirOrder = <<>>
    /\ mapOrder = <<>>
    /\ pc = "idle"
    /\ infos = <<>>
    /\ role = EmptyString
    /\ roleInfos = <<>>
    /\ commonAdded = FALSE
    /\ roleCfgs = <<>>
    /\ cfgs = <<>>
    /\ ret = NotReturned
    /\ last = NoAssembly

IdleName ==
    /\ infrastructureName = EmptyString
    /\ apiHostname = EmptyString
    /\ inferred = NoOutcome

InitCtx ==
    /\ config \in CtxConfigs
    /\ config0 = config
    /\ call = NoCall
    /\ IdleName
    /\ IdleGen

\* A call fn(cfg) with outcome r: writes made through the ControllerConfigSpec
\* pointer reach the caller's object; a panic ends the process.
Called(fn, r) ==
    /\ call.kind # "panic"
    /\ call' = [fn |-> fn, before |-> config, kind |-> r.kind, val |-> r.val, err |-> r.err]
    /\ config' = [config EXCEPT !.ControllerConfigSpec = r.spec]
    /\ UNCHANGED <<config0, infrastructureName, apiHostname, inferred>>
    /\ UNCHANGED genVars

CallPlatformString ==
    Called("platformStringFromControllerConfigSpec",
           platformStringFromControllerConfigSpec(config.ControllerConfigSpec))

CallCloudProvider == Called("cloudProvider", cloudProvider(config))

CallCloudConfigFlag == Called("cloudConfigFlag", cloudConfigFlag(config))

CallShortName == Called("onPremPlatformShortName", onPremPlatformShortName(config))

CallUnicast ==
    Called("onPremPlatformKeepalivedEnableUnicast", onPremPlatformKeepalivedEnableUnicast(config))

CallIngressIP == Called("onPremPlatformIngressIP", onPremPlatformIngressIP(config))

CallAPIServerInternalIP ==
    Called("onPremPlatformAPIServerInternalIP", onPremPlatformAPIServerInternalIP(config))

CallClusterName == Called("clusterName", clusterName(config))

NextCtx ==
    \/ CallPlatformString
    \/ CallCloudProvider
    \/ CallCloudConfigFlag
    \/ CallShortName
    \/ CallUnicast
    \/ CallIngressIP
    \/ CallAPIServerInternalIP
    \/ CallClusterName

SpecCtx == InitCtx /\ [][NextCtx]_vars

-----------------------------------------------------------------------------
(* Configuration context: properties *)

\* The platform type a configuration context carries; absent descriptors count
\* as the empty type.
TypeOf(cfg) ==
    LET ic == cfg.ControllerConfigSpec
    IN  IF ic.Infra = Nil THEN EmptyString
        ELSE IF ic.Infra[1].PlatformStatus = Nil THEN EmptyString
        ELSE ic.Infra[1].PlatformStatus[1].Type

AbsentDescriptor(cfg) ==
    \/ cfg.ControllerConfigSpec.Infra = Nil
    \/ cfg.ControllerConfigSpec.Infra[1].PlatformStatus = Nil

\* r is t with every upper-case ASCII letter replaced by its lower-case letter.
IsLowerCaseOf(r, t) ==
    /\ Len(r) = Len(t)
    /\ \A i \in DOMAIN t :
         IF t[i] \in 65..90 THEN r[i] = t[i] + 32 ELSE r[i] = t[i]

\* C5: platform resolution fails exactly for the empty type (absent descriptors
\* included) and for the sentinel "_base"; an allow-listed type resolves to its
\* lower-case form and any other non-empty type to lower-case "none".
C5_PlatformResolution ==
    call.fn = "platformStringFromControllerConfigSpec" =>
        LET t == TypeOf(call.before)
        IN  /\ (call.kind = "error") = (t = EmptyString \/ t = S(<<"_","b","a","s","e">>))
            /\ call.kind \in {"error", "value"}
            /\ (call.kind = "value" /\ t \in KnownPlatforms) => IsLowerCaseOf(call.val, t)
            /\ (call.kind = "value" /\ t \notin KnownPlatforms) => call.val = S(<<"n","o","n","e">>)
            /\ t = AWSPlatformType => call.val = S(<<"a","w","s">>)
            /\ t = OvirtPlatformType => call.val = S(<<"o","v","i","r","t">>)

\* A resolution of an unrecognised, non-empty platform type that fell back.
C5_Witness ==
    /\ call.fn = "platformStringFromControllerConfigSpec"
    /\ TypeOf(call.before) = UnknownPlatformType
    /\ call.kind = "value"

\* C8: the caller's configuration context is never changed by resolutions and
\* template-function calls.
C8_ContextReadOnly == config = config0

\* C10: with the infrastructure descriptor or the platform status absent, no
\* call ends in a nil-pointer panic, and cloudProvider returns the empty string.
C10_AbsentNeverFaults ==
    (call.fn # "none" /\ AbsentDescriptor(call.before)) =>
        /\ call.kind # "panic"
        /\ call.fn = "cloudProvider" => (call.kind = "value" /\ call.val = EmptyString)

-----------------------------------------------------------------------------
(* Inputs of the cluster-name specification *)

MaxNameLen == 5

MaxHostLen == 5

NameAlphabet == {Code("a"), Dash}

HostAlphabet == {Code("a"), Dash, Dot}

StringsUpTo(alphabet, n) == UNION {[1..k -> alphabet] : k \in 0..n}

\* The literal cases of the specification's cluster-name recovery examples.
LitInfra1 == S(<<"s","u","b","-","m","y","-","c","l","u","s","t","e","r","-","n","z","m","l","9">>)

LitHost1 == S(<<"a","p","i",".","s","u","b",".","m","y","-","c","l","u","s","t","e","r",".",
                "e","x","a","m","p","l","e",".","c","o","m">>)

LitName1 == S(<<"s","u","b",".","m","y","-","c","l","u","s","t","e","r">>)

LitInfra2 == S(<<"f","o","o","-","b","a","r","-","a","b","c","1","2">>)

LitHost2 == S(<<"a","p","i",".","f","o","o","-","b","a","r",".","e","x","a","m","p","l","e",".","c","o","m">>)

LitName2 == S(<<"f","o","o","-","b","a","r">>)

LitInfra3 == S(<<"a","b","c","1","2","3">>)

LitHost3 == S(<<"a","p","i",".","u","n","r","e","l","a","t","e","d",".",
                "e","x","a","m","p","l","e",".","c","o","m">>)

Literals == {<<LitInfra1, LitHost1>>, <<LitInfra2, LitHost2>>, <<LitInfra3, LitHost3>>}

IdleCtx == config = IdleConfig /\ config0 = IdleConfig /\ call = NoCall

InitName ==
    /\ IdleCtx
    /\ IdleGen
    /\ \/ /\ infrastructureName \in StringsUpTo(NameAlphabet, MaxNameLen)
          /\ apiHostname \in StringsUpTo(HostAlphabet, MaxHostLen)
       \/ \E p \in Literals : infrastructureName = p[1] /\ apiHostname = p[2]
    /\ inferred = NoOutcome

\* One call of the inference on the drawn arguments.
Infer ==
    /\ inferred.kind = "none"
    /\ inferred' = clusterNameFromInfrastructureNameAndApiHostname(infrastructureName, apiHostname)
    /\ UNCHANGED <<infrastructureName, apiHostname>>
    /\ UNCHANGED ctxVars
    /\ UNCHANGED genVars

NextName == Infer

SpecName == InitName /\ [][NextName]_vars

-----------------------------------------------------------------------------
(* Inputs of the generation specifications *)

MaxEntries == 3

MaxKeys == 2

Orders(n) == {o \in [1..n -> 1..n] : \A i, j \in 1..n : o[i] = o[j] => i = j}

Identity(n) == [i \in 1..n |-> i]

Reverse(n) == [i \in 1..n |-> n + 1 - i]

\* The tree that holds the given <<path, node>> entries and the directories
\* leading to them, under an existing template directory.
Tree(entries) ==
    LET paths == {e[1] : e \in entries}
        dirs == UNION {{SubSeq(q, 1, k) : k \in 0..(Len(q) - 1)} : q \in paths}
    IN  [q \in paths \cup dirs \cup {templateDir} |->
            IF q \in paths THEN (CHOOSE e \in entries : e[1] = q)[2] ELSE DirNode]

RECURSIVE Combine(_, _)
\* All unions of one option per feature.
Combine(features, k) ==
    IF k = 0 THEN {{}}
    ELSE {c \cup o : c \in Combine(features, k - 1), o \in features[k]}

Trees(features) == {Tree(c) : c \in Combine(features, Len(features))}

n00 == S(<<"0","0">>)

n01 == S(<<"0","1">>)

awsName == S(<<"a","w","s">>)

baremetalName == S(<<"b","a","r","e","m","e","t","a","l">>)

infraName == S(<<"i","n","f","r","a">>)

fileA == S(<<"a">>)

fileB == S(<<"b">>)

subdirS == S(<<"s">>)

readmeName == S(<<"z","z">>)

Lit1 == FileNode(S(<<"v","1">>))

Lit2 == FileNode(S(<<"v","2">>))

ZeroLength == FileNode(EmptyString)

EmptyTpl == FileNode(TplCloudConfigFlag)

BadTpl == FileNode(S(<<"{","{">>))

Unreadable == [kind |-> "file", data |-> S(<<"v","1">>), readable |-> FALSE]

\* The options "absent" and "present with one of the nodes" for one path.
Slot(path, nodes) == {{}} \cup {{<<path, n>>} : n \in nodes}

GenConfig(type) ==
    RenderConfig(Ptr([PlatformStatus |-> Ptr(PlatformStatus(type, Nil)),
                      APIServerURL |-> URLGood, InfrastructureName |-> InfraNameGood]),
                 EmptyString, "InTree")

AbsentInfraConfig == RenderConfig(Nil, EmptyString, "InTree")

\* The state at the call of generateTemplateMachineConfigs(config, templateDir).
Entry ==
    /\ config0 = config
    /\ pc = "start"
    /\ infos = <<>>
    /\ role = EmptyString
    /\ roleInfos = <<>>
    /\ commonAdded = FALSE
    /\ roleCfgs = <<>>
    /\ cfgs = <<>>
    /\ ret = NotReturned
    /\ last = NoAssembly
    /\ call = NoCall
    /\ IdleName

\* One name of one role on a bare-metal cluster, with every way a file named
\* "a" can appear in the layers.
MergeFeatures ==
    <<Slot(<<commonName, platformBase, filesDir, fileA>>, {Lit1, EmptyTpl}),
      Slot(<<masterName, n00, platformBase, filesDir, fileA>>, {ZeroLength, Lit1, Lit2, EmptyTpl}),
      Slot(<<masterName, n00, platformOnPrem, filesDir, fileA>>, {ZeroLength, Lit2}),
      Slot(<<masterName, n00, baremetalName, filesDir, fileA>>, {ZeroLength, Lit1, Lit2, EmptyTpl}),
      Slot(<<masterName, n00, baremetalName, filesDir, subdirS, fileA>>, {ZeroLength, Lit1}),
      {{}, {<<<<masterName, n00, platformBase, filesDir, fileB>>, Lit1>>},
           {<<<<masterName, readmeName>>, Lit1>>},
           {<<<<masterName, n00, platformBase, unitsDir, fileA>>, Lit2>>}}>>

\* Two environments: everything listed in increasing order, or in decreasing order.
SomeOrders ==
    /\ readdirOrder \in {Identity(MaxEntries), Reverse(MaxEntries)}
    /\ mapOrder = IF readdirOrder = Identity(MaxEntries)
                  THEN Identity(MaxKeys) ELSE Reverse(MaxKeys)

InitMerge ==
    /\ fs \in Trees(MergeFeatures)
    /\ config = GenConfig(BareMetalPlatformType)
    /\ SomeOrders
    /\ Entry

SpecMerge == InitMerge /\ [][Next]_vars

subdirT == S(<<"t">>)

\* One name of one role on an AWS cluster: the same file name in two nested
\* sub-directories, several keys in both maps, a common layer.
OrderFeatures ==
    <<Slot(<<masterName, n00, platformBase, filesDir, subdirS, fileA>>, {Lit1}),
      Slot(<<masterName, n00, platformBase, filesDir, subdirT, fileA>>, {Lit2, ZeroLength}),
      Slot(<<masterName, n00, platformBase, filesDir, fileB>>, {Lit1}),
      Slot(<<commonName, platformBase, filesDir, readmeName>>, {Lit2}),
      {{}, {<<<<masterName, n00, awsName, unitsDir, fileB>>, Lit1>>,
            <<<<masterName, n00, awsName, unitsDir, fileA>>, Lit2>>}},
      Slot(<<masterName, readmeName>>, {Lit1})>>

\* Every order of listing a directory and of ranging over a map.
InitOrder ==
    /\ fs \in Trees(OrderFeatures)
    /\ config = GenConfig(AWSPlatformType)
    /\ readdirOrder \in Orders(MaxEntries)
    /\ mapOrder \in Orders(MaxKeys)
    /\ Entry

SpecOrder == InitOrder /\ [][Next]_vars

\* A template directory that is not a directory.
NotADirectory == [q \in {templateDir} |-> Lit1]

\* The roles master, worker and a custom pool, with up to two names, a common
\* layer, and every kind of failure an assembly can meet.
GenFeatures ==
    <<{{}, {<<<<commonName, platformBase, filesDir, fileA>>, Lit1>>},
           {<<<<commonName, platformBase>>, Lit1>>},
           {<<<<commonName, awsName, filesDir, fileB>>, Lit2>>,
            <<<<commonName, platformOnPrem, filesDir, fileA>>, Lit2>>}},
      Slot(<<masterName, n00, platformBase, filesDir, fileA>>, {Lit1, BadTpl, Unreadable}),
      {{}, {<<<<masterName, n01, platformBase, unitsDir, fileB>>, Lit1>>},
           {<<<<masterName, n01, awsName, filesDir, fileA>>, Lit2>>},
           {<<<<masterName, n01, platformBase>>, Lit1>>}},
      {{}, {<<<<workerName, n00, platformBase, filesDir, fileA>>, Lit1>>},
           {<<<<workerName, n00, platformBase, filesDir, fileA>>, Lit1>>,
            <<<<workerName, n00, platformBase, filesDir, fileB>>, BadTpl>>}},
      Slot(<<infraName, readmeName>>, {Lit1}),
      {{}, {<<<<readmeName>>, Lit1>>}, {<<<<masterName, readmeName>>, Lit1>>}}>>

Init ==
    /\ fs \in Trees(GenFeatures) \cup {NotADirectory}
    /\ config \in {GenConfig(AWSPlatformType), GenConfig(BareMetalPlatformType), AbsentInfraConfig}
    /\ SomeOrders
    /\ Entry

Spec == Init /\ [][Next]_vars

-----------------------------------------------------------------------------
(* Cluster-name inference: properties *)

\* The prefixes of the infrastructure name that end right before one of its dashes.
DashPrefixes(infra) == {Slice(infra, 1, p - 1) : p \in {q \in DOMAIN infra : infra[q] = Dash}}

\* All names obtained from prefix by turning any of its dashes into dots.
DashDotVariants(prefix) ==
    {[q \in DOMAIN prefix |-> IF q \in D THEN Dot ELSE prefix[q]] :
        D \in SUBSET {q \in DOMAIN prefix : prefix[q] = Dash}}

\* A variant the search accepts.
Acceptable(t, host) == ~HasSuffixDot(t) /\ Contains(host, t)

\* Generation order of two variants of one prefix: the separator nearest the
\* end varies slowest, and the dot comes before the dash.
TriedBefore(u, v) ==
    \E p \in DOMAIN u :
        /\ u[p] = Dot /\ v[p] = Dash
        /\ \A q \in (p + 1)..Len(u) : u[q] = v[q]

AcceptableVariants(infra, host) ==
    UNION {{t \in DashDotVariants(pre) : Acceptable(t, host)} : pre \in DashPrefixes(infra)}

\* C9: the inference returns the first acceptable variant in trial order
\* (longest prefix first, variants of a prefix in generation order), fails
\* exactly when no variant of any prefix is acceptable, and gives the three
\* literal results of the specification.
C9_FirstMatchSearch ==
    inferred.kind # "none" =>
        LET acc == AcceptableVariants(infrastructureName, apiHostname)
        IN  /\ (inferred.kind = "err") = (acc = {})
            /\ inferred.kind = "ok" =>
                  /\ inferred.val \in acc
                  /\ \A w \in acc \ {inferred.val} :
                        \/ Len(w) < Len(inferred.val)
                        \/ Len(w) = Len(inferred.val) /\ TriedBefore(inferred.val, w)
            /\ IndexByte(infrastructureName, Dash) = 0 => inferred.kind = "err"
            /\ (infrastructureName = LitInfra1 /\ apiHostname = LitHost1)
                  => inferred = [kind |-> "ok", val |-> LitName1]
            /\ (infrastructureName = LitInfra2 /\ apiHostname = LitHost2)
                  => inferred = [kind |-> "ok", val |-> LitName2]
            /\ (infrastructureName = LitInfra3 /\ apiHostname = LitHost3)
                  => inferred.kind = "err"

\* A call that succeeded although a shorter prefix and another variant of the
\* same prefix were acceptable too.
C9_Witness ==
    /\ inferred.kind = "ok"
    /\ \E w \in AcceptableVariants(infrastructureName, apiHostname) :
          Len(w) < Len(inferred.val)
    /\ \E w \in AcceptableVariants(infrastructureName, apiHostname) :
          Len(w) = Len(inferred.val) /\ w # inferred.val

\* C11: whenever the inference succeeds, whatever the infrastructure name
\* (also one with a leading dash or with consecutive dashes) and the API host
\* name, the cluster name it returns is not the empty string.
C11_InferredNameNonEmpty ==
    inferred.kind = "ok" => inferred.val # EmptyString

-----------------------------------------------------------------------------
(* Merging: properties of the last assembly.  kind is filesDir or unitsDir. *)

ArtifactKinds == {filesDir, unitsDir}

\* The map the walk of one kind of directory fills.
Merged(kind) == IF kind = filesDir THEN last.files ELSE last.units

\* The position in platformDirs of the directory whose kind sub-tree holds p.
LayerOf(p, kind) ==
    CHOOSE i \in DOMAIN last.platformDirs : IsUnder(p, last.platformDirs[i] \o <<kind>>)

\* The files named x in the kind sub-tree of a directory of platformDirs.
Named(x, kind) ==
    {p \in DOMAIN fs :
        /\ fs[p].kind = "file"
        /\ Base(p) = x
        /\ \E i \in DOMAIN last.platformDirs : IsUnder(p, last.platformDirs[i] \o <<kind>>)}

\* Lexical order of two paths, component by component.
PathLess(p, q) ==
    \E i \in 1..(IF Len(p) < Len(q) THEN Len(p) ELSE Len(q)) :
        /\ \A j \in 1..(i - 1) : p[j] = q[j]
        /\ StrLess(p[i], q[i])

\* Precedence of two files of one kind: the later directory of platformDirs,
\* and inside one directory the lexically later path.
Later(p, q, kind) ==
    \/ LayerOf(p, kind) > LayerOf(q, kind)
    \/ LayerOf(p, kind) = LayerOf(q, kind) /\ PathLess(q, p)

ZeroLengthAt(p) == Len(fs[p].data) = 0

Rendering(p) == renderTemplate(config, p, fs[p].data).out

RendersNonEmpty(p) == ~ZeroLengthAt(p) /\ Len(Rendering(p)) > 0

RendersEmpty(p) == ~ZeroLengthAt(p) /\ Len(Rendering(p)) = 0

\* The file of highest precedence in a set of files of one kind.
Top(ps, kind) == CHOOSE p \in ps : \A q \in ps \ {p} : Later(p, q, kind)

\* The names of all files of the tree.
FileNames == {Base(p) : p \in {q \in DOMAIN fs : fs[q].kind = "file"}}

\* The tree without the file p.
Without(p) == [q \in DOMAIN fs \ {p} |-> fs[q]]

\* What the merge over platformDirs gives on another tree.
MergedIn(tree, kind) ==
    IF kind = filesDir
    THEN MergeFrom(tree, last.platformDirs, 1, {}, {}, config, readdirOrder).files
    ELSE MergeFrom(tree, last.platformDirs, 1, {}, {}, config, readdirOrder).units

\* The last assembly merged all its directories.
MergeDone == last.err = ""

\* The files named x with a non-empty rendering lie in two directories at least.
InTwoDirectories(x, kind) ==
    \E p, q \in Named(x, kind) :
        /\ RendersNonEmpty(p) /\ RendersNonEmpty(q)
        /\ LayerOf(p, kind) # LayerOf(q, kind)

\* C1 as stated: whenever X has a non-empty rendering in two directories, the
\* merged result maps X to the rendering from the directory of highest
\* precedence among them.
C1_LaterDirectoryWins ==
    MergeDone =>
        \A kind \in ArtifactKinds : \A x \in FileNames :
            InTwoDirectories(x, kind) =>
                <<x, Rendering(Top({p \in Named(x, kind) : RendersNonEmpty(p)}, kind))>>
                    \in Merged(kind)

\* C1 amended: whenever X has a non-empty rendering in two directories and no
\* zero-length file named X has a higher precedence than all of them, the
\* merged result maps X to the rendering from the directory of highest
\* precedence among them, and to nothing else.
C1_LaterDirectoryWinsUnlessSuppressed ==
    MergeDone =>
        \A kind \in ArtifactKinds : \A x \in FileNames :
            LET top == Top({p \in Named(x, kind) : RendersNonEmpty(p)}, kind)
            IN  (/\ InTwoDirectories(x, kind)
                 /\ \A z \in Named(x, kind) : ZeroLengthAt(z) => Later(top, z, kind))
                => /\ <<x, Rendering(top)>> \in Merged(kind)
                   /\ \A e \in Merged(kind) : e[1] = x => e[2] = Rendering(top)

\* An assembly where "a" renders differently in _base and in the platform
\* directory of the name's own layer, and the platform version is the result.
C1_Witness ==
    /\ MergeDone
    /\ <<masterName, n00, platformBase, filesDir, fileA>> \in DOMAIN fs
    /\ <<masterName, n00, baremetalName, filesDir, fileA>> \in DOMAIN fs
    /\ RendersNonEmpty(<<masterName, n00, platformBase, filesDir, fileA>>)
    /\ RendersNonEmpty(<<masterName, n00, baremetalName, filesDir, fileA>>)
    /\ Rendering(<<masterName, n00, platformBase, filesDir, fileA>>)
          # Rendering(<<masterName, n00, baremetalName, filesDir, fileA>>)
    /\ <<fileA, Rendering(<<masterName, n00, baremetalName, filesDir, fileA>>)>> \in last.files

\* C2: a zero-length file named X that no file named X with a non-empty
\* rendering follows in precedence leaves X out of the merged result, whatever
\* the directories before it contributed, and the entries of all other names
\* are what they are without the zero-length file.
C2_ZeroLengthSuppresses ==
    MergeDone =>
        \A kind \in ArtifactKinds : \A x \in FileNames : \A z \in Named(x, kind) :
            (/\ ZeroLengthAt(z)
             /\ \A p \in Named(x, kind) : RendersNonEmpty(p) => Later(z, p, kind))
            => /\ x \notin Keys(Merged(kind))
               /\ {e \in Merged(kind) : e[1] # x}
                     = {e \in MergedIn(Without(z), kind) : e[1] # x}

\* An assembly where a zero-length "a" in the platform directory removed the
\* "a" of a directory before it and left the entry of "b" alone.
C2_Witness ==
    /\ MergeDone
    /\ <<masterName, n00, baremetalName, filesDir, fileA>> \in DOMAIN fs
    /\ ZeroLengthAt(<<masterName, n00, baremetalName, filesDir, fileA>>)
    /\ \E p \in Named(fileA, filesDir) :
          RendersNonEmpty(p) /\ Later(<<masterName, n00, baremetalName, filesDir, fileA>>, p, filesDir)
    /\ fileA \notin Keys(last.files)
    /\ fileB \in Keys(last.files)

\* C3 as stated: a template named X that renders to nothing, and that no file
\* named X with a non-empty rendering follows in precedence, leaves X out of
\* the merged result.
C3_EmptyRenderingSuppresses ==
    MergeDone =>
        \A kind \in ArtifactKinds : \A x \in FileNames : \A t \in Named(x, kind) :
            (/\ RendersEmpty(t)
             /\ \A p \in Named(x, kind) : RendersNonEmpty(p) => Later(t, p, kind))
            => x \notin Keys(Merged(kind))

\* C3 amended: a template named X that renders to nothing adds no entry and
\* removes none: the merged result is what it is without the template, and a
\* non-empty X of a directory before it stays, unless a zero-length file named
\* X follows that X.
C3_EmptyRenderingKeeps ==
    MergeDone =>
        \A kind \in ArtifactKinds : \A x \in FileNames : \A t \in Named(x, kind) :
            RendersEmpty(t) =>
                /\ Merged(kind) = MergedIn(Without(t), kind)
                /\ \A p \in Named(x, kind) :
                      (/\ RendersNonEmpty(p)
                       /\ Later(t, p, kind)
                       /\ \A q \in Named(x, kind) :
                             (ZeroLengthAt(q) \/ RendersNonEmpty(q)) /\ q # p => Later(p, q, kind))
                      => <<x, Rendering(p)>> \in Merged(kind)

\* An assembly where "a" renders to nothing in the platform directory and the
\* "a" of a directory before it is in the merged result.
C3_Witness ==
    /\ MergeDone
    /\ <<masterName, n00, baremetalName, filesDir, fileA>> \in DOMAIN fs
    /\ RendersEmpty(<<masterName, n00, baremetalName, filesDir, fileA>>)
    /\ <<masterName, n00, platformBase, filesDir, fileA>> \in DOMAIN fs
    /\ RendersNonEmpty(<<masterName, n00, platformBase, filesDir, fileA>>)
    /\ <<fileA, Rendering(<<masterName, n00, platformBase, filesDir, fileA>>)>> \in last.files

-----------------------------------------------------------------------------
(* Serialization, the common layer, failures: properties *)

\* The values of map m in the increasing order of their keys.
InKeyOrder(seq, m) ==
    /\ Len(seq) = Cardinality(m)
    /\ \A e \in m : seq[Cardinality({d \in m : StrLess(d[1], e[1])}) + 1] = e[2]

\* The last assembly got as far as sorting its two maps.
Serialized ==
    last.err \in {"", "error transpiling CoreOS config to Ignition config"}

\* The last assembly again, in an environment that lists every directory and
\* ranges over every map in increasing order.
Reassembled ==
    generateMachineConfigForName(fs, config, last.role, last.name,
        templateDir \o <<rolePath(last.role), last.name>>, ~last.first,
        Identity(MaxEntries), Identity(MaxKeys), TRUE)

\* C4: the files sequence and the units sequence are the merged values in the
\* increasing order of their names, and they are the sequences of the
\* environment that lists everything in increasing order, whatever the order
\* in which this environment lists directories and ranges over maps.
C4_SerializationDeterministic ==
    Serialized =>
        /\ InKeyOrder(last.sortedFiles, last.files)
        /\ InKeyOrder(last.sortedUnits, last.units)
        /\ last.sortedFiles = Reassembled.sortedFiles
        /\ last.sortedUnits = Reassembled.sortedUnits

\* An assembly with two files and two units, one file name met in two nested
\* sub-directories, in an environment that lists and ranges in decreasing order.
C4_Witness ==
    /\ Serialized
    /\ readdirOrder = Reverse(MaxEntries)
    /\ mapOrder = Reverse(MaxKeys)
    /\ <<masterName, n00, platformBase, filesDir, subdirS, fileA>> \in DOMAIN fs
    /\ <<masterName, n00, platformBase, filesDir, subdirT, fileA>> \in DOMAIN fs
    /\ Len(last.sortedFiles) >= 2
    /\ Len(last.sortedUnits) >= 2
    /\ last.sortedFiles[1] # last.sortedFiles[2]

\* The platform type of the context once an assembly has resolved it.
ResolvedType == config.ControllerConfigSpec.Infra[1].PlatformStatus[1].Type

\* The directory names of a layer for the resolved platform.
LayerNames ==
    IF ResolvedType \in {BareMetalPlatformType, OvirtPlatformType, OpenStackPlatformType,
                         VSpherePlatformType, KubevirtPlatformType}
    THEN <<platformBase, platformOnPrem, ToLower(ResolvedType)>>
    ELSE <<platformBase, ToLower(ResolvedType)>>

\* The directories of a layer under base that exist, in layer order.
ExistingLayer(base) ==
    SelectSeq([i \in DOMAIN LayerNames |-> base \o <<LayerNames[i]>>],
              LAMBDA d : d \in DOMAIN fs /\ fs[d].kind = "dir")

CommonLayerDirs == ExistingLayer(templateDir \o <<commonName>>)

LocalLayerDirs == ExistingLayer(templateDir \o <<rolePath(last.role), last.name>>)

\* The last assembly built its whole directory list.
ListBuilt == last.mcfg # Nil

\* C6 as stated: the directory list of every name of a role is the common
\* layer followed by the name's own layer.
C6_CommonLayerForEveryName ==
    ListBuilt => last.platformDirs = CommonLayerDirs \o LocalLayerDirs

\* C6 amended: the directory list of the first name directory of a role is the
\* common layer followed by the name's own layer; the list of every later name
\* of the role is the name's own layer alone.
C6_CommonLayerForFirstName ==
    ListBuilt =>
        last.platformDirs = IF last.first THEN CommonLayerDirs \o LocalLayerDirs
                            ELSE LocalLayerDirs

\* The second name of a role was assembled from its own layer alone although
\* the common layer exists.
C6_Witness ==
    /\ ListBuilt
    /\ ~last.first
    /\ CommonLayerDirs # <<>>
    /\ LocalLayerDirs # <<>>
    /\ last.platformDirs = LocalLayerDirs

\* A file the walk cannot turn into an entry: unreadable, or failing to render.
FailsToRender(p) ==
    /\ fs[p].kind = "file"
    /\ ~ZeroLengthAt(p)
    /\ ~fs[p].readable \/ renderTemplate(config, p, fs[p].data).err # ""

\* The layers the last assembly goes through: the common one for the first
\* name directory of a role, and the name's own.
LayerBases ==
    (IF last.first THEN {templateDir \o <<commonName>>} ELSE {})
        \cup {templateDir \o <<rolePath(last.role), last.name>>}

\* Something on the way of the last assembly fails: the platform type is not
\* resolved, a directory of a layer or its files or units entry is not a
\* directory, or a file below them fails.
MeetsFailure ==
    \/ ResolvedType = EmptyString
    \/ \E base \in LayerBases : \E i \in DOMAIN LayerNames :
          LET d == base \o <<LayerNames[i]>>
          IN  /\ d \in DOMAIN fs
              /\ \/ fs[d].kind # "dir"
                 \/ \E kind \in ArtifactKinds :
                       \/ d \o <<kind>> \in DOMAIN fs /\ fs[d \o <<kind>>].kind # "dir"
                       \/ \E p \in DOMAIN fs : IsUnder(p, d \o <<kind>>) /\ FailsToRender(p)

\* C7: an assembly that meets a failure returns the failure, and an assembly
\* that returns a failure returns no MachineConfig; the generation over all
\* roles then ends with that failure and returns no MachineConfig at all, as
\* does every generation that ends with a failure.
C7_NoPartialResult ==
    /\ (last.err # "none" /\ MeetsFailure) => last.err # ""
    /\ (last.err # "none" /\ last.err # "") =>
          /\ last.mcfg = Nil
          /\ pc = "done"
          /\ ret = [cfgs |-> Nil, err |-> last.err]
    /\ (pc = "done" /\ ret.err # "") => ret.cfgs = Nil
    /\ (pc = "done" /\ ret.err = "") => ret.cfgs # Nil

\* A generation that failed on a template of a later role after one file of
\* that name was merged and an earlier role had given its configs.
C7_Witness ==
    /\ pc = "done"
    /\ last.err = "failed to parse template"
    /\ last.files # {}
    /\ cfgs # <<>>
    /\ ret = [cfgs |-> Nil, err |-> last.err]

====
